---- MODULE Spec2Model ----
(***************************************************************************)
(* A model of pyphi/compute/parallel.py: the MapReduce engine              *)
(* (sequential and parallel paths), its worker processes, the log thread   *)
(* and the worker-count resolver get_num_processes.                        *)
(*                                                                         *)
(* Python values are modelled as integers.  None is the integer 0          *)
(* (POISON_PILL = None).  An element of out_queue is a record              *)
(* [exc |-> e, val |-> v]: e = "" for a plain value v, and e # "" for an   *)
(* ExceptionWrapper around the exception e.                                *)
(***************************************************************************)
EXTENDS Integers, Sequences, FiniteSets, TLC

(* ------------------------------ bounds -------------------------------- *)
\* longest input iterable
MaxLen == 2
\* multiprocessing.cpu_count() of the modelled machine
MaxCpu == 2
\* largest cpu_count the resolver alone is checked with
MaxAvail == 8
\* the accumulator value at which the modelled reducer sets self.done
ShortCircuitAt == 1

(* ----------------------- constants of the program --------------------- *)
\* POISON_PILL = None; None is modelled as 0
POISON_PILL == 0
\* Q_MAX_SIZE = SEM_VALUE_MAX, scaled down so that the task stream exceeds it
Q_MAX_SIZE == 1

\* the work items an iterable is drawn from: None (0), 1, 2, 3, 4
Items == 0..4

VARIABLES
    parallel,         \* the argument of run()
    iterable,         \* self.iterable
    NUMBER_OF_CORES,  \* config.NUMBER_OF_CORES
    cpu_count,        \* multiprocessing.cpu_count()
    threshold,        \* the reducer's threshold; 0: it never sets self.done
    startFails,       \* 1: configure_worker_logging raises in worker 1; else 0
    pc,               \* where the caller of run() is
    done,             \* self.done
    result,           \* the local `result` of run_parallel / run_sequential
    r,                \* the local `r` of run_parallel
    error,            \* the exception run() raised ("" if none)
    num_processes,    \* self.num_processes (0: None)
    tasks,            \* self.tasks: what is left of chain(iterable, poison)
    qstate,           \* in_queue, out_queue, log_queue: "none", "open", "closed"
    in_queue,         \* self.in_queue
    out_queue,        \* self.out_queue
    log_queue,        \* self.log_queue
    log_thread,       \* self.log_thread: "none", "running", "exited"
    handled,          \* the records the log thread has redispatched
    wpc,              \* self.processes: where each worker process is
    wobj,             \* the local `obj` of each worker
    i,                \* run_sequential: index of the next item
    progress,         \* self.progress: [n: update(1) calls, closed: close() calls]
    hist              \* history: what was put on in_queue (placed, primed,
                      \* refills), got from out_queue (received), computed
                      \* and reduced; how each envelope on out_queue (qkinds)
                      \* and the one in r (rkind) was sent: "r" a result,
                      \* "s" a worker's final POISON_PILL, "f" an
                      \* ExceptionWrapper; the records put on log_queue
                      \* (logged) and how many there were when finish_parallel
                      \* put its POISON_PILL (pillAt, -1 before); per worker
                      \* (wk) the items taken and not yet answered by a
                      \* result or an ExceptionWrapper (pending), the final
                      \* pills and ExceptionWrappers sent, what ended its loop
                      \* (stop: 0 nothing yet, 1 a POISON_PILL of
                      \* initialize_tasks, 2 a work item that is None)

inputs == <<parallel, iterable, NUMBER_OF_CORES, cpu_count, threshold, startFails>>
orch == <<pc, done, result, r, error, num_processes, tasks, qstate, i, progress>>
chans == <<in_queue, out_queue, log_queue>>
others == <<log_thread, handled, wpc, wobj, hist>>
vars == <<inputs, orch, chans, others>>

Procs == 1..MaxCpu

(* ------------------------- get_num_processes -------------------------- *)
\* get_num_processes with `num = cpu_count + NUMBER_OF_CORES` (the + 1 lost)
get_num_processes_NoPlusOne(cores, cpus) ==
    IF cores = 0 THEN [err |-> "ValueError: may not be 0", num |-> 0]
    ELSE IF cores > cpus THEN [err |-> "ValueError: more than available", num |-> 0]
    ELSE IF cores < 0
         THEN LET num == cpus + cores
              IN  IF num <= 0
                  THEN [err |-> "ValueError: too negative", num |-> 0]
                  ELSE [err |-> "", num |-> num]
    ELSE [err |-> "", num |-> cores]

\* [err |-> the ValueError raised ("" if none), num |-> the value returned]
get_num_processes(cores, cpus) ==
    IF cores = 0 THEN [err |-> "ValueError: may not be 0", num |-> 0]
    ELSE IF cores > cpus THEN [err |-> "ValueError: more than available", num |-> 0]
    ELSE IF cores < 0
         THEN LET num == cpus + cores + 1
              IN  IF num <= 0
                  THEN [err |-> "ValueError: too negative", num |-> 0]
                  ELSE [err |-> "", num |-> num]
    ELSE [err |-> "", num |-> cores]

(* ----------------- the caller-supplied map and reduce ------------------ *)
\* compute raises for item 3
ComputeRaises(obj) == obj = 3

\* compute: None -> 1, 4 -> None, any other item -> its square
compute(obj) ==
    IF obj = POISON_PILL THEN 1
    ELSE IF obj = 4 THEN POISON_PILL
    ELSE obj * obj

empty_result == 0

\* the running sum; a None result adds nothing
process_result(new, old) == old + new

\* whether process_result sets self.done on returning acc
SetsDone(acc) == threshold > 0 /\ acc >= threshold

Value(v) == [exc |-> "", val |-> v]
ExceptionWrapper(e) == [exc |-> e, val |-> 0]
isExceptionWrapper(x) == x.exc # ""
isPoisonPill(x) == x.exc = "" /\ x.val = POISON_PILL

RECURSIVE Repeat(_, _)
Repeat(x, n) == IF n = 0 THEN <<>> ELSE <<x>> \o Repeat(x, n - 1)

Min(a, b) == IF a < b THEN a ELSE b

\* islice(self.tasks, n): the first n elements of s, or all of it
Take(s, n) == SubSeq(s, 1, Min(n, Len(s)))
Drop(s, n) == SubSeq(s, Min(n, Len(s)) + 1, Len(s))

(* ------------------------------- Init --------------------------------- *)
Seqs(S, n) == UNION {[1..k -> S] : k \in 0..n}

InitRun ==
    /\ pc = "idle"
    /\ done = FALSE
    /\ result = 0
    /\ r = Value(0)
    /\ error = ""
    /\ num_processes = 0
    /\ tasks = <<>>
    /\ qstate = "none"
    /\ in_queue = <<>>
    /\ out_queue = <<>>
    /\ log_queue = <<>>
    /\ log_thread = "none"
    /\ handled = <<>>
    /\ wpc = [w \in Procs |-> "none"]
    /\ wobj = [w \in Procs |-> 0]
    /\ i = 1
    /\ progress = [n |-> 0, closed |-> 0]
    /\ hist = [placed |-> <<>>, primed |-> 0, refills |-> 0, received |-> 0,
               computed |-> 0, reduced |-> 0, qkinds |-> <<>>, rkind |-> "",
               logged |-> <<>>, pillAt |-> -1,
               wk |-> [w \in Procs |-> [pending |-> 0, sent |-> 0,
                                        fail |-> 0, stop |-> 0]]]

Init ==
    /\ parallel \in BOOLEAN
    /\ iterable \in Seqs(Items, MaxLen)
    /\ cpu_count = MaxCpu
    /\ threshold \in {0, ShortCircuitAt}
    /\ IF parallel
       THEN /\ NUMBER_OF_CORES \in -(MaxCpu + 1)..(MaxCpu + 1)
            /\ startFails \in 0..Min(1, get_num_processes(NUMBER_OF_CORES, cpu_count).num)
       ELSE /\ NUMBER_OF_CORES = 1
            /\ startFails = 0
    /\ InitRun

(* --------------------------- run_sequential --------------------------- *)
\* run(parallel=False): result = self.empty_result(); enter the for loop
RunSequential ==
    /\ pc = "idle" /\ ~parallel
    /\ result' = empty_result
    /\ i' = 1
    /\ pc' = IF Len(iterable) = 0 THEN "seq_close" ELSE "seq"
    /\ UNCHANGED <<inputs, done, r, error, num_processes, tasks, qstate,
                   progress, chans, others>>

\* the loop goes on to the next item whatever self.done is
SeqLoopTestIgnoresDone(acc, nxt) ==
    IF nxt > Len(iterable) THEN "seq_close" ELSE "seq"

\* `if self.done: break`, then the for loop's own end: after process_result
\* returned acc the loop goes on with item nxt only if done is not set and
\* there is such an item
SeqLoopTest(acc, nxt) ==
    IF SetsDone(acc) \/ nxt > Len(iterable) THEN "seq_close" ELSE "seq"

\* one iteration of the for loop: compute, process_result, update, break
SeqIter ==
    /\ pc = "seq"
    /\ LET obj == iterable[i] IN
       IF ComputeRaises(obj)
       THEN /\ pc' = "raised"
            /\ error' = "ComputeError"
            /\ UNCHANGED <<result, done, progress, i, hist>>
       ELSE LET acc == process_result(compute(obj), result) IN
            /\ result' = acc
            /\ done' = SetsDone(acc)
            /\ progress' = [progress EXCEPT !.n = @ + 1]
            /\ hist' = [hist EXCEPT !.computed = @ + 1, !.reduced = @ + 1]
            /\ i' = i + 1
            /\ pc' = SeqLoopTest(acc, i + 1)
            /\ UNCHANGED error
    /\ UNCHANGED <<inputs, r, num_processes, tasks, qstate, chans,
                   log_thread, handled, wpc, wobj>>

\* self.progress.close(); return result
SeqClose ==
    /\ pc = "seq_close"
    /\ progress' = [progress EXCEPT !.closed = @ + 1]
    /\ pc' = "returned"
    /\ UNCHANGED <<inputs, done, result, r, error, num_processes, tasks,
                   qstate, i, chans, others>>

(* ---------------------------- run_parallel ---------------------------- *)
\* initialize_tasks: self.tasks = chain(iterable, poison); the first
\* Q_MAX_SIZE elements of it are put on in_queue
initialize_tasks(num) ==
    LET stream == iterable \o Repeat(POISON_PILL, num) IN
    /\ in_queue' = Take(stream, Q_MAX_SIZE)
    /\ tasks' = Drop(stream, Q_MAX_SIZE)
    /\ hist' = [hist EXCEPT !.placed = Take(stream, Q_MAX_SIZE),
                            !.primed = Len(Take(stream, Q_MAX_SIZE))]

\* get_num_processes() raised in the first statement of start_parallel:
\* the ValueError leaves run() and nothing has been allocated or started
ConfigurationErrorLate(e) ==
    /\ pc' = "raised"
    /\ error' = e
    /\ qstate' = "open"
    /\ UNCHANGED <<num_processes, wpc, log_thread, in_queue, tasks, hist,
                   result>>

ConfigurationError(e) ==
    /\ pc' = "raised"
    /\ error' = e
    /\ UNCHANGED <<num_processes, qstate, wpc, log_thread, in_queue, tasks,
                   hist, result>>

\* run(parallel=True): start_parallel() (get_num_processes, the queues, the
\* worker processes, the log thread, initialize_tasks), then
\* result = self.empty_result() and the first test of `while not self.done`
StartParallel ==
    /\ pc = "idle" /\ parallel
    /\ LET res == get_num_processes(NUMBER_OF_CORES, cpu_count) IN
       IF res.err # ""
       THEN ConfigurationError(res.err)
       ELSE /\ num_processes' = res.num
            /\ qstate' = "open"
            /\ wpc' = [w \in Procs |-> IF w <= res.num THEN "start" ELSE "none"]
            /\ log_thread' = "running"
            /\ initialize_tasks(res.num)
            /\ result' = empty_result
            /\ pc' = "get"
            /\ UNCHANGED error
    /\ UNCHANGED <<inputs, done, r, i, progress, out_queue, log_queue,
                   handled, wobj>>

\* r = self.out_queue.get(): blocks while out_queue is empty
OutQueueGet ==
    /\ pc = "get"
    /\ out_queue # <<>>
    /\ r' = Head(out_queue)
    /\ out_queue' = Tail(out_queue)
    /\ hist' = [hist EXCEPT !.received = @ + 1,
                            !.rkind = Head(hist.qkinds),
                            !.qkinds = Tail(@)]
    /\ pc' = "put"
    /\ UNCHANGED <<inputs, done, result, error, num_processes, tasks, qstate,
                   i, progress, in_queue, log_queue, log_thread, handled,
                   wpc, wobj>>

\* self.maybe_put_task(): in_queue.put(next(self.tasks)) blocks while
\* in_queue is full; StopIteration is passed over
maybe_put_task ==
    /\ pc = "put"
    /\ IF tasks = <<>>
       THEN UNCHANGED <<tasks, in_queue, hist>>
       ELSE /\ Len(in_queue) < Q_MAX_SIZE
            /\ in_queue' = Append(in_queue, Head(tasks))
            /\ tasks' = Tail(tasks)
            /\ hist' = [hist EXCEPT !.placed = Append(@, Head(tasks)),
                                    !.refills = @ + 1]
    /\ pc' = "dispatch"
    /\ UNCHANGED <<inputs, done, result, r, error, num_processes, qstate, i,
                   progress, out_queue, log_queue, log_thread, handled,
                   wpc, wobj>>

\* the POISON_PILL branch with progress.update(1) moved out of the else
DispatchPoisonUpdates ==
    /\ pc = "dispatch"
    /\ isPoisonPill(r)
    /\ num_processes' = num_processes - 1
    /\ progress' = [progress EXCEPT !.n = @ + 1]
    /\ pc' = IF num_processes - 1 = 0 THEN "finish" ELSE "get"
    /\ UNCHANGED <<inputs, done, result, r, error, tasks, qstate, i,
                   chans, others>>

\* if r is POISON_PILL: self.num_processes -= 1; break when it is 0
DispatchPoison ==
    /\ pc = "dispatch"
    /\ isPoisonPill(r)
    /\ num_processes' = num_processes - 1
    /\ pc' = IF num_processes - 1 = 0 THEN "finish" ELSE "get"
    /\ UNCHANGED <<inputs, done, result, r, error, tasks, qstate, i,
                   progress, chans, others>>

\* the ExceptionWrapper is dropped and the loop goes on
DispatchReraiseSwallows ==
    /\ pc = "dispatch"
    /\ isExceptionWrapper(r)
    /\ pc' = "get"
    /\ UNCHANGED <<inputs, done, result, r, error, num_processes, tasks,
                   qstate, i, progress, chans, others>>

\* elif isinstance(r, ExceptionWrapper): r.reraise() leaves run_parallel
DispatchReraise ==
    /\ pc = "dispatch"
    /\ isExceptionWrapper(r)
    /\ error' = r.exc
    /\ pc' = "raised"
    /\ UNCHANGED <<inputs, done, result, r, num_processes, tasks, qstate, i,
                   progress, chans, others>>

\* the loop is left on done only when no envelope waits on out_queue
LoopTestDrainsFirst(acc) ==
    IF SetsDone(acc) /\ out_queue = <<>> THEN "finish" ELSE "get"

\* the loop goes round again whatever done is
LoopTestIgnoresDone(acc) == "get"

\* the test of `while not self.done` after process_result returned acc
LoopTest(acc) == IF SetsDone(acc) THEN "finish" ELSE "get"

\* else: result = self.process_result(r, result); self.progress.update(1);
\* then the test of `while not self.done`
DispatchResult ==
    /\ pc = "dispatch"
    /\ ~isPoisonPill(r) /\ ~isExceptionWrapper(r)
    /\ LET acc == process_result(r.val, result) IN
       /\ result' = acc
       /\ done' = SetsDone(acc)
       /\ pc' = LoopTest(acc)
    /\ progress' = [progress EXCEPT !.n = @ + 1]
    /\ hist' = [hist EXCEPT !.reduced = @ + 1]
    /\ UNCHANGED <<inputs, r, error, num_processes, tasks, qstate, i,
                   chans, log_thread, handled, wpc, wobj>>

(* --------------------------- finish_parallel -------------------------- *)
\* self.log_queue.put(POISON_PILL)
FinishLogPill ==
    /\ pc = "finish"
    /\ log_queue' = Append(log_queue, POISON_PILL)
    /\ hist' = [hist EXCEPT !.pillAt = Len(hist.logged)]
    /\ pc' = "join"
    /\ UNCHANGED <<inputs, done, result, r, error, num_processes, tasks,
                   qstate, i, progress, in_queue, out_queue, log_thread,
                   handled, wpc, wobj>>

\* a join that returns at once, whatever the log thread is doing
FinishJoinNoWait ==
    /\ pc = "join"
    /\ pc' = "close"
    /\ UNCHANGED <<inputs, done, result, r, error, num_processes, tasks,
                   qstate, i, progress, chans, others>>

\* self.log_thread.join(): blocks until the log thread has exited
FinishJoin ==
    /\ pc = "join"
    /\ log_thread = "exited"
    /\ pc' = "close"
    /\ UNCHANGED <<inputs, done, result, r, error, num_processes, tasks,
                   qstate, i, progress, chans, others>>

\* self.log_queue.close(); self.in_queue.close(); self.out_queue.close()
FinishClose ==
    /\ pc = "close"
    /\ qstate' = "closed"
    /\ pc' = "progress_close"
    /\ UNCHANGED <<inputs, done, result, r, error, num_processes, tasks,
                   i, progress, chans, others>>

\* self.progress.close()
FinishProgressClose ==
    /\ pc = "progress_close"
    /\ progress' = [progress EXCEPT !.closed = @ + 1]
    /\ pc' = "terminate"
    /\ UNCHANGED <<inputs, done, result, r, error, num_processes, tasks,
                   qstate, i, chans, others>>

\* for process in self.processes: process.terminate(); return result
FinishTerminate ==
    /\ pc = "terminate"
    /\ wpc' = [w \in Procs |-> IF wpc[w] = "none" THEN "none" ELSE "terminated"]
    /\ pc' = "returned"
    /\ UNCHANGED <<inputs, done, result, r, error, num_processes, tasks,
                   qstate, i, progress, chans, log_thread, handled, wobj,
                   hist>>

(* ----------------------------- the worker ----------------------------- *)
\* configure_worker_logging(log_queue); an exception it raises is caught by
\* `except Exception` and sent as an ExceptionWrapper
WorkerStart(w) ==
    /\ wpc[w] = "start"
    /\ IF w <= startFails
       THEN /\ out_queue' = Append(out_queue, ExceptionWrapper("LoggingSetupError"))
            /\ wpc' = [wpc EXCEPT ![w] = "failed"]
            /\ hist' = [hist EXCEPT !.qkinds = Append(@, "f"),
                                    !.wk[w].fail = @ + 1]
       ELSE /\ wpc' = [wpc EXCEPT ![w] = "get"]
            /\ UNCHANGED <<out_queue, hist>>
    /\ UNCHANGED <<inputs, orch, in_queue, log_queue, log_thread, handled,
                   wobj>>

\* one in_queue.get of iter(in_queue.get, POISON_PILL): blocks while
\* in_queue is empty; on POISON_PILL the loop ends and
\* out_queue.put(POISON_PILL) follows
WorkerGet(w) ==
    /\ wpc[w] = "get"
    /\ in_queue # <<>>
    /\ in_queue' = Tail(in_queue)
    /\ IF Head(in_queue) = POISON_PILL
       THEN /\ out_queue' = Append(out_queue, Value(POISON_PILL))
            /\ wpc' = [wpc EXCEPT ![w] = "exit_log"]
            /\ hist' = [hist EXCEPT
                  !.qkinds = Append(@, "s"),
                  !.wk[w].sent = @ + 1,
                  !.wk[w].stop =
                      IF Len(hist.placed) - Len(in_queue) + 1 > Len(iterable)
                      THEN 1 ELSE 2]
            /\ UNCHANGED wobj
       ELSE /\ wobj' = [wobj EXCEPT ![w] = Head(in_queue)]
            /\ wpc' = [wpc EXCEPT ![w] = "compute"]
            /\ hist' = [hist EXCEPT !.wk[w].pending = @ + 1]
            /\ UNCHANGED out_queue
    /\ UNCHANGED <<inputs, orch, log_queue, log_thread, handled>>

\* out_queue.put(compute(obj, *context)); an exception of compute is caught
\* and sent as an ExceptionWrapper, and the worker ends
WorkerCompute(w) ==
    /\ wpc[w] = "compute"
    /\ IF ComputeRaises(wobj[w])
       THEN /\ out_queue' = Append(out_queue, ExceptionWrapper("ComputeError"))
            /\ wpc' = [wpc EXCEPT ![w] = "failed"]
            /\ hist' = [hist EXCEPT !.qkinds = Append(@, "f"),
                                    !.wk[w].fail = @ + 1,
                                    !.wk[w].pending = @ - 1]
       ELSE /\ out_queue' = Append(out_queue, Value(compute(wobj[w])))
            /\ wpc' = [wpc EXCEPT ![w] = "get"]
            /\ hist' = [hist EXCEPT !.computed = @ + 1,
                                    !.qkinds = Append(@, "r"),
                                    !.wk[w].pending = @ - 1]
    /\ wobj' = [wobj EXCEPT ![w] = 0]
    /\ UNCHANGED <<inputs, orch, in_queue, log_queue, log_thread, handled>>

\* log.debug('Worker process exiting - no more jobs'): the record goes to
\* log_queue through the QueueHandler; the worker function returns
WorkerExitLog(w) ==
    /\ wpc[w] = "exit_log"
    /\ log_queue' = Append(log_queue, w)
    /\ hist' = [hist EXCEPT !.logged = Append(@, w)]
    /\ wpc' = [wpc EXCEPT ![w] = "exited"]
    /\ UNCHANGED <<inputs, orch, in_queue, out_queue, log_thread, handled,
                   wobj>>

(* ------------------------------ LogThread ----------------------------- *)
\* a turn of the log thread that handles whatever it gets and never breaks
LogThreadRunNoBreak ==
    /\ log_thread = "running"
    /\ log_queue # <<>>
    /\ log_queue' = Tail(log_queue)
    /\ handled' = Append(handled, Head(log_queue))
    /\ UNCHANGED <<inputs, orch, in_queue, out_queue, log_thread, wpc, wobj,
                   hist>>

\* one turn of LogThread.run: record = self.q.get(); break on POISON_PILL,
\* else logger.handle(record)
LogThreadRun ==
    /\ log_thread = "running"
    /\ log_queue # <<>>
    /\ log_queue' = Tail(log_queue)
    /\ IF Head(log_queue) = POISON_PILL
       THEN /\ log_thread' = "exited"
            /\ UNCHANGED handled
       ELSE /\ handled' = Append(handled, Head(log_queue))
            /\ UNCHANGED log_thread
    /\ UNCHANGED <<inputs, orch, in_queue, out_queue, wpc, wobj, hist>>

Next ==
    \/ RunSequential
    \/ SeqIter
    \/ SeqClose
    \/ StartParallel
    \/ OutQueueGet
    \/ maybe_put_task
    \/ DispatchPoison
    \/ DispatchReraise
    \/ DispatchResult
    \/ FinishLogPill
    \/ FinishJoin
    \/ FinishClose
    \/ FinishProgressClose
    \/ FinishTerminate
    \/ \E w \in Procs : WorkerStart(w)
    \/ \E w \in Procs : WorkerGet(w)
    \/ \E w \in Procs : WorkerCompute(w)
    \/ \E w \in Procs : WorkerExitLog(w)
    \/ LogThreadRun

Spec == Init /\ [][Next]_vars

\* The operating system schedules every process and thread that can run:
\* the caller of run(), each worker process and the log thread.
Fairness ==
    /\ WF_vars(RunSequential \/ SeqIter \/ SeqClose \/ StartParallel
               \/ OutQueueGet \/ maybe_put_task \/ DispatchPoison
               \/ DispatchReraise \/ DispatchResult \/ FinishLogPill
               \/ FinishJoin \/ FinishClose \/ FinishProgressClose
               \/ FinishTerminate)
    /\ \A w \in Procs :
          WF_vars(WorkerStart(w) \/ WorkerGet(w) \/ WorkerCompute(w)
                  \/ WorkerExitLog(w))
    /\ WF_vars(LogThreadRun)

FairSpec == Init /\ [][Next]_vars /\ Fairness

(* ------------------- get_num_processes on its own --------------------- *)
InitResolve ==
    /\ parallel = TRUE
    /\ iterable = <<>>
    /\ threshold = 0
    /\ startFails = 0
    /\ cpu_count \in 1..MaxAvail
    /\ NUMBER_OF_CORES \in -(MaxAvail + 2)..(MaxAvail + 2)
    /\ InitRun

\* a call of get_num_processes(): its value goes to num_processes, the
\* ValueError it raises to error
ResolveCall ==
    /\ pc = "idle"
    /\ LET res == get_num_processes(NUMBER_OF_CORES, cpu_count) IN
       /\ num_processes' = res.num
       /\ error' = res.err
    /\ pc' = "resolved"
    /\ UNCHANGED <<inputs, done, result, r, tasks, qstate, i, progress,
                   chans, others>>

SpecResolve == InitResolve /\ [][ResolveCall]_vars
(* ====================== the properties checked ======================== *)
\* NUMBER_OF_CORES is a valid setting for cpu_count
ValidCores ==
    /\ NUMBER_OF_CORES # 0
    /\ NUMBER_OF_CORES <= cpu_count
    /\ (NUMBER_OF_CORES < 0 => cpu_count + NUMBER_OF_CORES + 1 >= 1)

\* the worker count a valid setting stands for
WorkerCount ==
    IF NUMBER_OF_CORES > 0 THEN NUMBER_OF_CORES
    ELSE cpu_count + NUMBER_OF_CORES + 1

\* the positions of the input whose item makes compute raise
RaisingItems == {k \in 1..Len(iterable) : ComputeRaises(iterable[k])}

\* the left fold of the reducer over the computed items of s, from acc
RECURSIVE Fold(_, _)
Fold(s, acc) ==
    IF s = <<>> THEN acc
    ELSE Fold(Tail(s), process_result(compute(Head(s)), acc))

\* s without its k-th element
Without(s, k) == SubSeq(s, 1, k - 1) \o SubSeq(s, k + 1, Len(s))

\* run() has ended: it returned or it raised
Ended == pc \in {"returned", "raised"}

\* no worker process will ever take a task again
NoWorkerLeft ==
    \A w \in Procs : wpc[w] \in {"none", "failed", "exit_log", "exited", "terminated"}

(* C1: when a parallel run() that got past start_parallel ends - by
   exhaustion, by short-circuit or by a re-raised worker failure - the
   teardown has been executed: the log thread has exited, the queues are
   closed and every worker process is terminated. *)
C1_TeardownBeforeRunEnds ==
    (parallel /\ ValidCores /\ Ended) =>
        /\ log_thread = "exited"
        /\ qstate = "closed"
        /\ \A w \in Procs : wpc[w] \in {"none", "terminated"}

(* C2: if compute raises for exactly one item of the input and the reducer
   never sets self.done (and no worker fails otherwise), run() never
   returns a result, and the error it raises is the one compute raised, in
   sequential mode and in parallel mode with every worker count. *)
C2_OneFailureIsRaised ==
    (/\ Cardinality(RaisingItems) = 1
     /\ threshold = 0
     /\ startFails = 0
     /\ parallel => ValidCores)
    => /\ pc # "returned"
       /\ pc = "raised" => error = "ComputeError"

(* C3: with a compute that never raises and the running sum as the reducer,
   never setting self.done, a run() that returns - parallel with any worker
   count and interleaving, or sequential - returns the left fold of the
   reducer over the computed input, the result of the sequential run. *)
C3_ParallelEqualsSequential ==
    (/\ RaisingItems = {}
     /\ threshold = 0
     /\ startFails = 0
     /\ pc = "returned")
    => result = Fold(iterable, empty_result)

\* the reducer's threshold is reached, in whatever order the items are
\* reduced, before the last item of the input, and no worker fails
ShortCircuitInput ==
    /\ threshold > 0
    /\ RaisingItems = {}
    /\ startFails = 0
    /\ parallel => ValidCores
    /\ Len(iterable) >= 1
    /\ \A k \in 1..Len(iterable) :
          Fold(Without(iterable, k), empty_result) >= threshold

(* C4: with a reducer that sets self.done once the sum has reached the
   threshold, on an input that reaches it before its last item, run()
   eventually returns, in both modes and under fair scheduling, with fewer
   process_result calls than input items; the parallel run does not wait
   for the workers or their sentinels. *)
C4_ShortCircuitReturns ==
    ShortCircuitInput =>
        <>(pc = "returned" /\ progress.n < Len(iterable))

\* a parallel run returned on short-circuit having received no worker's
\* sentinel, with tasks still on in_queue and others never released
C4_Witness ==
    /\ ShortCircuitInput
    /\ parallel
    /\ pc = "returned"
    /\ done
    /\ num_processes = WorkerCount
    /\ progress.n < Len(iterable)
    /\ in_queue # <<>>
    /\ tasks # <<>>

(* C5: when run() has ended - returned or raised, in either mode - the
   progress bar's close() has been called exactly once. *)
C5_CloseExactlyOnce ==
    Ended => progress.closed = 1

(* C6: get_num_processes, for a configured value c and a >= 1 available
   cores: a ValueError for c = 0, for c > a, and for c < 0 with
   a + c + 1 <= 0; c for 1 <= c <= a; a + c + 1 for c < 0 with
   a + c + 1 >= 1.  What it returns lies in 1..a.  For a = 8: 4 -> 4,
   -1 -> 8, -8 -> 1, and 0, 9, -9 raise. *)
C6_Resolver ==
    pc = "resolved" =>
        LET c == NUMBER_OF_CORES
            a == cpu_count
        IN  /\ c = 0 => error # ""
            /\ c > a => error # ""
            /\ (1 <= c /\ c <= a) => (error = "" /\ num_processes = c)
            /\ (c < 0 /\ a + c + 1 >= 1) =>
                  (error = "" /\ num_processes = a + c + 1)
            /\ (c < 0 /\ a + c + 1 <= 0) => error # ""
            /\ error = "" => num_processes \in 1..a
            /\ (a = 8 /\ c = 4) => (error = "" /\ num_processes = 4)
            /\ (a = 8 /\ c = -1) => (error = "" /\ num_processes = 8)
            /\ (a = 8 /\ c = -8) => (error = "" /\ num_processes = 1)
            /\ (a = 8 /\ c \in {0, 9, -9}) => error # ""

\* the resolver has answered -8 of 8 available cores with 1
C6_Witness ==
    /\ pc = "resolved"
    /\ cpu_count = 8
    /\ NUMBER_OF_CORES = -8
    /\ error = ""
    /\ num_processes = 1

(* C7: with an invalid NUMBER_OF_CORES (0, more than cpu_count, or too
   negative) a parallel run() does nothing but raise the ValueError: no
   queue is allocated, no worker process and no log thread is started,
   nothing is put on in_queue and nothing is reduced. *)
C7_ConfigErrorBeforeAnything ==
    (parallel /\ ~ValidCores) =>
        /\ pc \in {"idle", "raised"}
        /\ pc = "raised" => error # ""
        /\ qstate = "none"
        /\ \A w \in Procs : wpc[w] = "none"
        /\ log_thread = "none"
        /\ in_queue = <<>> /\ out_queue = <<>> /\ log_queue = <<>>
        /\ hist.placed = <<>>
        /\ progress.n = 0

\* a parallel run() has raised the ValueError of a too negative setting
C7_Witness ==
    /\ parallel
    /\ NUMBER_OF_CORES < 0
    /\ ~ValidCores
    /\ pc = "raised"
    /\ error = "ValueError: too negative"
    /\ Len(iterable) > 0

(* C8: in_queue never holds more than Q_MAX_SIZE elements; initialize_tasks
   puts at most Q_MAX_SIZE; afterwards the caller puts at most one element
   per envelope it got from out_queue; and maybe_put_task never puts on a
   full in_queue, so the caller never blocks on it. *)
C8_NeverPutsOnFullQueue ==
    /\ Len(in_queue) <= Q_MAX_SIZE
    /\ hist.primed <= Q_MAX_SIZE
    /\ hist.refills <= hist.received
    /\ ~(pc = "put" /\ tasks # <<>> /\ Len(in_queue) = Q_MAX_SIZE)

(* C9: in a parallel run in which no worker fails and the reducer never sets
   self.done, when the loop is left through exhaustion (num_processes has
   reached 0) every input item has been computed and reduced exactly once
   and out_queue holds nothing. *)
C9_ExhaustionReducesEverything ==
    (/\ parallel
     /\ threshold = 0
     /\ RaisingItems = {}
     /\ startFails = 0
     /\ pc = "finish")
    => /\ num_processes = 0
       /\ hist.computed = Len(iterable)
       /\ progress.n = Len(iterable)
       /\ result = Fold(iterable, empty_result)
       /\ out_queue = <<>>

(* C10: once a worker has sent an ExceptionWrapper, the caller of run() is
   never blocked for good on its way to re-raising it: neither in
   in_queue.put with in_queue full and no worker left to take from it, nor
   in out_queue.get with out_queue empty and no worker left to put on it. *)
C10_NeverBlockedForever ==
    (\E w \in Procs : wpc[w] = "failed") =>
        /\ ~(/\ pc = "put" /\ tasks # <<>> /\ Len(in_queue) = Q_MAX_SIZE
             /\ NoWorkerLeft)
        /\ ~(pc = "get" /\ out_queue = <<>> /\ NoWorkerLeft)

(* ------------------------------- C11 ---------------------------------- *)
\* C11: finish_parallel does its steps in one order. The queues are closed
\* only after the POISON_PILL was put on log_queue and the log thread has
\* exited; the progress bar is closed only after the queues are closed; a
\* worker is terminated only after all of that, so never while the log
\* thread runs or the progress bar is open.
C11_TeardownOrder ==
    parallel =>
        /\ pc = "join" => hist.pillAt >= 0
        /\ pc = "close" => (log_thread = "exited" /\ qstate = "open")
        /\ qstate = "closed" => (hist.pillAt >= 0 /\ log_thread = "exited")
        /\ pc = "progress_close" => (qstate = "closed" /\ progress.closed = 0)
        /\ progress.closed > 0 => qstate = "closed"
        /\ (pc = "terminate" \/ \E w \in Procs : wpc[w] = "terminated") =>
               /\ log_thread = "exited"
               /\ qstate = "closed"
               /\ progress.closed = 1

\* a parallel run has returned after terminating a worker that was still
\* waiting for a task or computing one
C11_Witness ==
    /\ parallel
    /\ pc = "returned"
    /\ \E w \in Procs : wpc[w] = "terminated" /\ hist.wk[w].sent = 0
    /\ log_thread = "exited"
    /\ progress.closed = 1

(* ------------------------------- C12 ---------------------------------- *)
\* C12: a worker sends at most one final envelope, a POISON_PILL or an
\* ExceptionWrapper, and takes no task after it. It sends its POISON_PILL
\* only after taking a POISON_PILL that initialize_tasks put behind the
\* input; after an ExceptionWrapper it sends no POISON_PILL and no result.
\* Every item it took is answered by exactly one envelope before it takes
\* the next one.
C12_WorkerProtocol ==
    \A w \in Procs :
        /\ hist.wk[w].sent + hist.wk[w].fail <= 1
        /\ hist.wk[w].sent = 1 => hist.wk[w].stop = 1
        /\ hist.wk[w].pending \in {0, 1}
        /\ wpc[w] = "get" => hist.wk[w].pending = 0
        /\ wpc[w] = "compute" => hist.wk[w].pending = 1
        /\ hist.wk[w].sent + hist.wk[w].fail = 1 =>
               /\ wpc[w] \in {"exit_log", "exited", "failed", "terminated"}
               /\ hist.wk[w].pending = 0

(* ------------------------------- C13 ---------------------------------- *)
\* the POISON_PILLs that initialize_tasks put behind the input and that
\* have been put on in_queue so far
PillsPlaced ==
    IF Len(hist.placed) > Len(iterable)
    THEN Len(hist.placed) - Len(iterable) ELSE 0

\* C13: what has been put on in_queue is, in order, a beginning of the input
\* followed by one POISON_PILL per worker, so no POISON_PILL goes in before
\* the whole input did; at most as many POISON_PILLs as workers go in, and
\* exactly that many in a run that returns because num_processes reached 0.
C13_TaskStream ==
    (parallel /\ ValidCores) =>
        /\ hist.placed =
               Take(iterable \o Repeat(POISON_PILL, WorkerCount),
                    Len(hist.placed))
        /\ PillsPlaced <= WorkerCount
        /\ (pc = "returned" /\ ~done) => PillsPlaced = WorkerCount

(* ------------------------------- C14 ---------------------------------- *)
\* C14: in a parallel run, once process_result has set done or the last
\* envelope got from out_queue is an ExceptionWrapper, no step reduces a
\* result, gets an envelope from out_queue, updates the progress bar or
\* changes the accumulator: what run() returns after a short-circuit is the
\* accumulator of the process_result call that set done.
C14_NothingAfterFlagOrFailure ==
    [][(parallel /\ (done \/ isExceptionWrapper(r))) =>
           /\ hist.reduced' = hist.reduced
           /\ hist.received' = hist.received
           /\ progress.n' = progress.n
           /\ result' = result
           /\ done' = done]_vars

\* a short-circuited parallel run has returned while a computed result, sent
\* by a worker, is still on out_queue
C14_Witness ==
    /\ parallel
    /\ pc = "returned"
    /\ done
    /\ \E k \in 1..Len(out_queue) :
           hist.qkinds[k] = "r" /\ ~isPoisonPill(out_queue[k])

(* ------------------------------- C15 ---------------------------------- *)
\* C15: in both modes progress.update(1) has been called exactly as often as
\* process_result, at most once per computed result and at most once per
\* input item. In a parallel run every envelope got from out_queue is
\* accounted for once: reduced (with one update), counted as a POISON_PILL,
\* re-raised, or still to be dispatched - so no update is made for a
\* POISON_PILL or an ExceptionWrapper.
C15_ProgressCountsReductions ==
    /\ progress.n = hist.reduced
    /\ hist.reduced <= hist.computed
    /\ progress.n <= Len(iterable)
    /\ (parallel /\ ValidCores /\ pc # "idle") =>
           hist.received =
               hist.reduced + (WorkerCount - num_processes)
               + (IF pc = "raised" THEN 1 ELSE 0)
               + (IF pc \in {"put", "dispatch"} THEN 1 ELSE 0)

\* a parallel run that reduced a result has also counted a POISON_PILL
C15_Witness ==
    /\ parallel
    /\ Ended
    /\ progress.n >= 1
    /\ hist.received > progress.n
    /\ num_processes < WorkerCount

(* ------------------------------- C16 ---------------------------------- *)
\* C16: a sequential run takes the items in input order, one iteration
\* computing item i and reducing its result at once, so the items computed
\* and the results reduced are always the same beginning of the input and
\* the accumulator is the left fold of process_result over it from the empty
\* result. No item is processed after the one that set done, and run()
\* returns only with done set or the whole input processed.
C16_SequentialFold ==
    (~parallel /\ pc # "idle") =>
        /\ i \in 1..(Len(iterable) + 1)
        /\ hist.computed = i - 1
        /\ hist.reduced = i - 1
        /\ result = Fold(SubSeq(iterable, 1, i - 1), empty_result)
        /\ \A k \in 0..(i - 2) :
               ~SetsDone(Fold(SubSeq(iterable, 1, k), empty_result))
        /\ done = SetsDone(result)
        /\ done => pc \in {"seq_close", "returned"}
        /\ pc = "returned" => (done \/ i - 1 = Len(iterable))
        /\ pc = "raised" => (i <= Len(iterable) /\ ComputeRaises(iterable[i]))

\* a sequential run has returned after a short-circuit that left an item
\* of the input unprocessed
C16_Witness ==
    /\ ~parallel
    /\ pc = "returned"
    /\ done
    /\ i - 1 >= 1
    /\ i - 1 < Len(iterable)
    /\ result = Fold(SubSeq(iterable, 1, i - 1), empty_result)

(* ------------------------------- C17 ---------------------------------- *)
\* everything ever put on log_queue, in order: the workers' records with
\* the POISON_PILL of finish_parallel where it was put
LogStream ==
    IF hist.pillAt < 0 THEN hist.logged
    ELSE Take(hist.logged, hist.pillAt) \o <<POISON_PILL>>
         \o Drop(hist.logged, hist.pillAt)

\* the log thread has handled, once each and in the order they were put,
\* a beginning of the records put before the POISON_PILL; what it has not
\* got yet is still on log_queue in that order; it has exited only on the
\* POISON_PILL, after handling every record put before it, and none after
C17_RelaySafe ==
    log_thread # "none" =>
        /\ handled = Take(hist.logged, Len(handled))
        /\ hist.pillAt >= 0 => Len(handled) <= hist.pillAt
        /\ log_thread = "running" => log_queue = Drop(LogStream, Len(handled))
        /\ log_thread = "exited" =>
               /\ hist.pillAt >= 0
               /\ handled = Take(hist.logged, hist.pillAt)
               /\ log_queue = Drop(hist.logged, hist.pillAt)

\* C17: the log thread handles every record put on log_queue before the
\* POISON_PILL exactly once and in FIFO order, stops only on the POISON_PILL
\* and handles nothing put after it; and log_thread.join() of finish_parallel
\* always returns, whatever the workers that are still alive go on logging.
C17_LogRelay ==
    /\ []C17_RelaySafe
    /\ (pc = "join") ~> (pc = "close")

\* the log thread has exited after handling a record, with a record that a
\* worker put behind the POISON_PILL left on log_queue, and join returned
C17_Witness ==
    /\ pc \in {"close", "progress_close", "terminate", "returned"}
    /\ log_thread = "exited"
    /\ handled # <<>>
    /\ Len(hist.logged) > hist.pillAt
    /\ log_queue # <<>>

(* ------------------------------- C18 ---------------------------------- *)
\* C18: no work item and no result of compute is read as a POISON_PILL. A
\* worker ends its loop only on a POISON_PILL that initialize_tasks put
\* behind the input, never on a work item; run_parallel counts
\* num_processes down only for an envelope that a worker sent as its final
\* POISON_PILL, never for a result; so every result a worker sent and the
\* orchestrator got is reduced. This is to hold for items and results that
\* are None as for any other.
C18_NoneIsNoSentinel ==
    /\ \A w \in Procs : hist.wk[w].stop # 2
    /\ (pc = "dispatch" /\ isPoisonPill(r)) => hist.rkind = "s"
    /\ (pc = "dispatch" /\ hist.rkind = "r") =>
           (~isPoisonPill(r) /\ ~isExceptionWrapper(r))

(* ------------------------------- C19 ---------------------------------- *)
\* C19: a worker's failure reaches the caller only if its ExceptionWrapper
\* is got from out_queue before process_result sets done. Once done is set
\* a parallel run is in finish_parallel or has returned, with no error and
\* without having got an ExceptionWrapper, whatever waits on out_queue or
\* is put there later; a run that raised a worker's failure has done unset.
C19_FailureAfterFlagIsLost ==
    parallel =>
        /\ done =>
               /\ pc \in {"finish", "join", "close", "progress_close",
                          "terminate", "returned"}
               /\ error = ""
               /\ ~isExceptionWrapper(r)
        /\ (pc = "raised" /\ ValidCores) =>
               /\ ~done
               /\ isExceptionWrapper(r)
               /\ hist.rkind = "f"
               /\ error = r.exc

\* a short-circuited parallel run has returned without error while the
\* ExceptionWrapper of a failed worker is on out_queue, never got
C19_Witness ==
    /\ parallel
    /\ pc = "returned"
    /\ done
    /\ error = ""
    /\ \E w \in Procs : hist.wk[w].fail = 1
    /\ \E k \in 1..Len(out_queue) : isExceptionWrapper(out_queue[k])
====
